---- MODULE Spec2Model ----
(***************************************************************************)
(* Model of BitManipulation.h: eight free functions over 32-bit integers.  *)
(*                                                                         *)
(* A 32-bit value (int or unsigned int) is its bit pattern: a function     *)
(* from bit positions 0..W-1 (0 = least significant) to {0,1}.  A signed   *)
(* int is the two's-complement reading of the pattern, an unsigned int the *)
(* plain binary reading; the bitwise operators act on the pattern alike.   *)
(* Shifts follow the C++20 rules, which are also what GCC, Clang and MSVC  *)
(* produce under the earlier standards: << drops the bits shifted out, >>  *)
(* of an unsigned value fills with zeros and >> of a signed value fills    *)
(* with the sign bit.  Signed overflow of x - 1 stays undefined and is     *)
(* modelled as a choice (SubOneOutcomes).                                  *)
(*                                                                         *)
(* The library holds no state.  The variables are those of a caller: the   *)
(* record of its last call (fn, args, ret), the int storage it passes to   *)
(* SwapNumbers (mem, with pre the storage before the last call), the       *)
(* locals of a running GetBitCount (pc, x, nCount, nCopy, with iters the   *)
(* number of loop bodies run) and seen, the first seed given to the        *)
(* generator with what came back.                                          *)
(***************************************************************************)
EXTENDS Integers, FiniteSets, Sequences, TLC

VARIABLES fn, args, ret, mem, pre, pc, x, nCount, nCopy, iters, seen

vars == <<fn, args, ret, mem, pre, pc, x, nCount, nCopy, iters, seen>>

-----------------------------------------------------------------------------
(* Widths and bounds *)

\* width of int and unsigned int
W == 32

\* inputs: any pattern in the low LowBits bits and in the high HighBits bits,
\* around a regular filling of the bits between
LowBits == 3
HighBits == 2
\* int storage locations the caller owns
NumLocs == 3
\* calls counted after the generator's first call
MaxCalls == 3

Bits == 0 .. (W - 1)
Bit == {0, 1}

-----------------------------------------------------------------------------
(* 32-bit operators of the language *)

Zero == [i \in Bits |-> 0]
One == [i \in Bits |-> IF i = 0 THEN 1 ELSE 0]

\* a & b
And(a, b) == [i \in Bits |-> a[i] * b[i]]
\* a | b
Or(a, b) == [i \in Bits |-> IF a[i] + b[i] > 0 THEN 1 ELSE 0]
\* a ^ b
Xor(a, b) == [i \in Bits |-> (a[i] + b[i]) % 2]
\* a << k : the bits shifted past bit W-1 are dropped
Shl(a, k) == [i \in Bits |-> IF i >= k THEN a[i - k] ELSE 0]
\* a >> k on unsigned int: zero filling
ShrU(a, k) == [i \in Bits |-> IF i + k < W THEN a[i + k] ELSE 0]
\* a >> k on int: sign filling
ShrS(a, k) == [i \in Bits |-> IF i + k < W THEN a[i + k] ELSE a[W - 1]]
\* a + 1 modulo 2^W: bit i flips iff every lower bit is 1
AddOne(a) == [i \in Bits |-> IF \A j \in 0 .. (i - 1) : a[j] = 1 THEN 1 - a[i] ELSE a[i]]
\* a - 1 modulo 2^W: bit i flips iff every lower bit is 0
SubOne(a) == [i \in Bits |-> IF \A j \in 0 .. (i - 1) : a[j] = 0 THEN 1 - a[i] ELSE a[i]]
\* int -> bool
IntToBool(a) == a # Zero
\* bool -> int (integral promotion)
BoolToInt(b) == IF b THEN One ELSE Zero
\* unsigned int -> int: the same pattern, read as two's complement
UnsignedToInt(u) == [i \in Bits |-> u[i]]

IntMin == [i \in Bits |-> IF i = W - 1 THEN 1 ELSE 0]
IntMax == [i \in Bits |-> IF i = W - 1 THEN 0 ELSE 1]
AllOnes == [i \in Bits |-> 1]

\* x - 1 on int: INT_MIN - 1 overflows, which is undefined; the outcomes are
\* the wrapped value or any other value the build leaves in the register
SubOneOutcomes(a) == IF a = IntMin THEN {SubOne(a), Zero, AllOnes, IntMin} ELSE {SubOne(a)}

-----------------------------------------------------------------------------
(* The functions of the library *)

\* return x && (!x & (x - 1));   xm1 is the value of x - 1
IsPowerOfTwo(xx, xm1) ==
    IntToBool(xx) /\ IntToBool(And(BoolToInt(~IntToBool(xx)), xm1))

\* variant: the third statement left out
SwapNumbers_NoThird(m, a, b) ==
    LET m1 == [m EXCEPT ![a] = Xor(m[a], m[b])]
        m2 == [m1 EXCEPT ![b] = Xor(m1[b], m1[a])]
    IN  m2

\* variant: if (a == b) return; in front
SwapNumbers_Guarded(m, a, b) ==
    IF a = b THEN m
    ELSE LET m1 == [m EXCEPT ![a] = Xor(m[a], m[b])]
             m2 == [m1 EXCEPT ![b] = Xor(m1[b], m1[a])]
         IN  [m2 EXCEPT ![a] = Xor(m2[a], m2[b])]

\* *a ^= *b; *b ^= *a; *a ^= *b;   m is the storage, a and b locations in it
SwapNumbers(m, a, b) ==
    LET m1 == [m EXCEPT ![a] = Xor(m[a], m[b])]
        m2 == [m1 EXCEPT ![b] = Xor(m1[b], m1[a])]
        m3 == [m2 EXCEPT ![a] = Xor(m2[a], m2[b])]
    IN  m3

\* variant: return (n & (n >> 1)) == 0;
BitsAreInAltOrder_NoAdjacentOnes(n) == And(n, ShrU(n, 1)) = Zero

\* const unsigned int num = n ^ (n >> 1); return (((num + 1) & num) == 0);
BitsAreInAltOrder(n) ==
    LET num == Xor(n, ShrU(n, 1))
    IN  And(AddOne(num), num) = Zero

\* return ((a ^ b) == 0);
CompareIntegers(a, b) == Xor(a, b) = Zero

\* variant: a running generator, which mixes what it returned first into the seed
GeneratePseudoRandomNumber_Running(nSeed) ==
    LET s0 == IF seen # <<>> THEN Xor(nSeed, seen[2]) ELSE nSeed
        x0 == UnsignedToInt(s0)
        x1 == Xor(x0, Shl(x0, 13))
        x2 == Xor(x1, ShrS(x1, 17))
        x3 == Xor(x2, Shl(x2, 5))
    IN  x3

\* int x = nSeed; x ^= x << 13; x ^= x >> 17; x ^= x << 5; return x;
GeneratePseudoRandomNumber(nSeed) ==
    LET x0 == UnsignedToInt(nSeed)
        x1 == Xor(x0, Shl(x0, 13))
        x2 == Xor(x1, ShrS(x1, 17))
        x3 == Xor(x2, Shl(x2, 5))
    IN  x3

\* variant: return (x & 2) == 0;
IsNumberEven_SecondBit(xx) == And(xx, Shl(One, 1)) = Zero

\* return (x & 1) == 0;
IsNumberEven(xx) == And(xx, One) = Zero

\* variant: the result narrowed to its low byte before the test
IsAtLeastOneBitSet_LowByte(xx) ==
    IntToBool([i \in Bits |-> IF i < 8 THEN Or(xx, Zero)[i] ELSE 0])

\* return (x | 0);   the int result is converted to bool
IsAtLeastOneBitSet(xx) == IntToBool(Or(xx, Zero))

\* variant: nCopy held in an int and tested with nCopy > 0
LoopCond_SignedPositive(c) == c # Zero /\ c[W - 1] = 0

\* while (nCopy != 0)
LoopCond(c) == c # Zero

\* variant: nCount++; nCopy >>= 1;
LoopBody_ShiftRight(n, c) == [nCount |-> n + 1, nCopy |-> ShrU(c, 1)]

\* nCount++; nCopy &= (nCopy - 1);
LoopBody(n, c) == [nCount |-> n + 1, nCopy |-> And(c, SubOne(c))]

RECURSIVE GetBitCountLoop(_, _)
GetBitCountLoop(n, c) ==
    IF LoopCond(c)
    THEN LET s == LoopBody(n, c) IN GetBitCountLoop(s.nCount, s.nCopy)
    ELSE n

\* int nCount = 0; unsigned int nCopy = x; while ...; return nCount;
GetBitCount(xx) == GetBitCountLoop(0, xx)

-----------------------------------------------------------------------------
(* The values the caller passes *)

\* the pattern of a natural number below 2^(W-1)
FromNat(v) == [i \in Bits |-> IF i < W - 1 THEN (v \div (2 ^ i)) % 2 ELSE 0]
\* 2^k
OneHot(k) == [i \in Bits |-> IF i = k THEN 1 ELSE 0]
\* 2^k - 1: the k low bits set
LowOnes(k) == [i \in Bits |-> IF i < k THEN 1 ELSE 0]
\* 1, 10, 101, 1010, ... : k bits long, alternating from a leading 1
Alternating(k) == [i \in Bits |-> IF i < k /\ (k - 1 - i) % 2 = 0 THEN 1 ELSE 0]

Fillings == {"zeros", "ones", "even", "odd"}
FillBit(f, i) ==
    CASE f = "zeros" -> 0
      [] f = "ones" -> 1
      [] f = "even" -> IF i % 2 = 0 THEN 1 ELSE 0
      [] f = "odd" -> IF i % 2 = 1 THEN 1 ELSE 0

Framed(lo, hi, f) ==
    [i \in Bits |-> IF i < LowBits THEN lo[i]
                    ELSE IF i >= W - HighBits THEN hi[i - (W - HighBits)]
                    ELSE FillBit(f, i)]

FramedWords ==
    {Framed(lo, hi, f) : lo \in [0 .. (LowBits - 1) -> Bit],
                         hi \in [0 .. (HighBits - 1) -> Bit],
                         f \in Fillings}

\* values the specification names: 3, 4, 5, 6, 7, 10, 11, 100, 255
NamedWords == {FromNat(v) : v \in {3, 4, 5, 6, 7, 10, 11, 100, 255}}

Words ==
    FramedWords \cup NamedWords
        \cup {OneHot(k) : k \in Bits}
        \cup {LowOnes(k) : k \in 0 .. W}
        \cup {Alternating(k) : k \in 0 .. W}

\* the ints held in storage and compared with each other
StoredInts == {Zero, One, FromNat(5), AllOnes, IntMin, IntMax}

\* the few values used where calls are interleaved
FewWords == {Zero, FromNat(5), IntMin, AllOnes}

Locs == 1 .. NumLocs

-----------------------------------------------------------------------------
(* The caller: it makes one call at a time, takes the result and goes on *)

NoCall == fn = "none" /\ pc = "idle"

\* ret is <<>> while nothing has been returned, <<r>> once r has been
Call(f, a, r) == NoCall /\ fn' = f /\ args' = a /\ ret' = r

\* one more call made after the generator's first
Tick(s) == IF s = <<>> THEN s ELSE <<s[1], s[2], IF s[3] < MaxCalls THEN s[3] + 1 ELSE s[3]>>

Blank ==
    /\ fn = "none"
    /\ args = <<>>
    /\ ret = <<>>
    /\ pc = "idle"
    /\ x = Zero
    /\ nCount = 0
    /\ nCopy = Zero
    /\ iters = 0

Init ==
    /\ Blank
    /\ mem = [l \in Locs |-> Zero]
    /\ pre = mem
    /\ seen = <<>>

CallIsPowerOfTwo(v) ==
    /\ \E d \in SubOneOutcomes(v) : Call("IsPowerOfTwo", <<v>>, <<IsPowerOfTwo(v, d)>>)
    /\ seen' = Tick(seen)
    /\ UNCHANGED <<mem, pre, pc, x, nCount, nCopy, iters>>

CallBitsAreInAltOrder(v) ==
    /\ Call("BitsAreInAltOrder", <<v>>, <<BitsAreInAltOrder(v)>>)
    /\ seen' = Tick(seen)
    /\ UNCHANGED <<mem, pre, pc, x, nCount, nCopy, iters>>

CallCompareIntegers(a, b) ==
    /\ Call("CompareIntegers", <<a, b>>, <<CompareIntegers(a, b)>>)
    /\ seen' = Tick(seen)
    /\ UNCHANGED <<mem, pre, pc, x, nCount, nCopy, iters>>

CallGeneratePseudoRandomNumber(v) ==
    /\ Call("GeneratePseudoRandomNumber", <<v>>, <<GeneratePseudoRandomNumber(v)>>)
    /\ seen' = Tick(seen)
    /\ UNCHANGED <<mem, pre, pc, x, nCount, nCopy, iters>>

\* the same call, with the caller noting the first seed it passes and the result
NotedGeneratePseudoRandomNumber(v) ==
    /\ Call("GeneratePseudoRandomNumber", <<v>>, <<GeneratePseudoRandomNumber(v)>>)
    /\ seen' = IF seen = <<>> THEN <<v, ret'[1], 0>> ELSE Tick(seen)
    /\ UNCHANGED <<mem, pre, pc, x, nCount, nCopy, iters>>

CallIsNumberEven(v) ==
    /\ Call("IsNumberEven", <<v>>, <<IsNumberEven(v)>>)
    /\ seen' = Tick(seen)
    /\ UNCHANGED <<mem, pre, pc, x, nCount, nCopy, iters>>

CallIsAtLeastOneBitSet(v) ==
    /\ Call("IsAtLeastOneBitSet", <<v>>, <<IsAtLeastOneBitSet(v)>>)
    /\ seen' = Tick(seen)
    /\ UNCHANGED <<mem, pre, pc, x, nCount, nCopy, iters>>

CallGetBitCount(v) ==
    /\ Call("GetBitCount", <<v>>, <<GetBitCount(v)>>)
    /\ seen' = Tick(seen)
    /\ UNCHANGED <<mem, pre, pc, x, nCount, nCopy, iters>>

\* SwapNumbers(&mem[a], &mem[b]); a = b passes the same location twice
CallSwapNumbers(a, b) ==
    /\ Call("SwapNumbers", <<a, b>>, <<>>)
    /\ pre' = mem
    /\ mem' = SwapNumbers(mem, a, b)
    /\ seen' = Tick(seen)
    /\ UNCHANGED <<pc, x, nCount, nCopy, iters>>

\* GetBitCount statement by statement: entry, one run of the loop body, return
EnterGetBitCount(v) ==
    /\ NoCall
    /\ fn' = "GetBitCount"
    /\ args' = <<v>>
    /\ x' = v
    /\ nCount' = 0
    /\ nCopy' = v
    /\ iters' = 0
    /\ pc' = "loop"
    /\ seen' = Tick(seen)
    /\ UNCHANGED <<ret, mem, pre>>

LoopStep ==
    /\ pc = "loop"
    /\ LoopCond(nCopy)
    /\ nCount' = LoopBody(nCount, nCopy).nCount
    /\ nCopy' = LoopBody(nCount, nCopy).nCopy
    /\ iters' = iters + 1
    /\ UNCHANGED <<fn, args, ret, mem, pre, pc, x, seen>>

ReturnGetBitCount ==
    /\ pc = "loop"
    /\ ~LoopCond(nCopy)
    /\ ret' = <<nCount>>
    /\ pc' = "done"
    /\ UNCHANGED <<fn, args, mem, pre, x, nCount, nCopy, iters, seen>>

\* the caller has taken the result; the call's locals are gone
Resume ==
    /\ fn # "none"
    /\ pc # "loop"
    /\ fn' = "none"
    /\ args' = <<>>
    /\ ret' = <<>>
    /\ pc' = "idle"
    /\ x' = Zero
    /\ nCount' = 0
    /\ nCopy' = Zero
    /\ iters' = 0
    /\ UNCHANGED <<mem, pre, seen>>

\* Calls of the functions that return a value, on the whole range of inputs
Next ==
    \/ \E v \in Words : CallIsPowerOfTwo(v)
    \/ \E v \in Words : CallBitsAreInAltOrder(v)
    \/ \E a \in StoredInts, b \in StoredInts : CallCompareIntegers(a, b)
    \/ \E v \in Words : CallGeneratePseudoRandomNumber(v)
    \/ \E v \in Words : CallIsNumberEven(v)
    \/ \E v \in Words : CallIsAtLeastOneBitSet(v)
    \/ \E v \in Words : CallGetBitCount(v)
    \/ Resume

Spec == Init /\ [][Next]_vars

\* SwapNumbers on every pair of locations of a storage holding any StoredInts
InitSwap ==
    /\ Blank
    /\ mem \in [Locs -> StoredInts]
    /\ pre = mem
    /\ seen = <<>>

NextSwap ==
    \/ \E a \in Locs, b \in Locs : CallSwapNumbers(a, b)
    \/ Resume

SpecSwap == InitSwap /\ [][NextSwap]_vars

\* GetBitCount run statement by statement; a call that has started keeps running
NextCount ==
    \/ \E v \in Words : EnterGetBitCount(v)
    \/ LoopStep
    \/ ReturnGetBitCount
    \/ Resume

SpecCount == Init /\ [][NextCount]_vars

SpecCountFair == SpecCount /\ WF_vars(LoopStep) /\ WF_vars(ReturnGetBitCount)

\* Calls of all eight functions in any order, the generator's first call noted
InitMixed ==
    /\ Blank
    /\ mem = [l \in Locs |-> IF l = 1 THEN AllOnes ELSE Zero]
    /\ pre = mem
    /\ seen = <<>>

NextMixed ==
    \/ \E v \in FewWords : NotedGeneratePseudoRandomNumber(v)
    \/ \E v \in FewWords : CallIsPowerOfTwo(v)
    \/ \E v \in FewWords : CallBitsAreInAltOrder(v)
    \/ \E a \in FewWords, b \in FewWords : CallCompareIntegers(a, b)
    \/ \E v \in FewWords : CallIsNumberEven(v)
    \/ \E v \in FewWords : CallIsAtLeastOneBitSet(v)
    \/ \E v \in FewWords : CallGetBitCount(v)
    \/ \E a \in Locs, b \in Locs : CallSwapNumbers(a, b)
    \/ Resume

SpecMixed == InitMixed /\ [][NextMixed]_vars

-----------------------------------------------------------------------------
(* Reference readings of a pattern *)

\* the value of the k low bits
RECURSIVE LowValue(_, _)
LowValue(a, k) == IF k = 0 THEN 0 ELSE LowValue(a, k - 1) + a[k - 1] * (2 ^ (k - 1))

\* the two's-complement value
ToSigned(a) ==
    IF a[W - 1] = 1
    THEN (LowValue(a, W - 1) - 2 ^ (W - 2)) - 2 ^ (W - 2)
    ELSE LowValue(a, W - 1)

\* the number of bits equal to 1
PopCount(a) == Cardinality({i \in Bits : a[i] = 1})

\* a below b as unsigned numbers
UnsignedLess(a, b) == \E i \in Bits : a[i] < b[i] /\ \A j \in (i + 1) .. (W - 1) : a[j] = b[j]

\* a with its lowest set bit cleared
ClearLowest(a) == [i \in Bits |-> IF a[i] = 1 /\ \A j \in 0 .. (i - 1) : a[j] = 0 THEN 0 ELSE a[i]]

\* every two adjacent bits differ, from the highest set bit down
AdjacentBitsDiffer(a) ==
    \A i \in 0 .. (W - 2) : (\E j \in (i + 1) .. (W - 1) : a[j] = 1) => a[i] # a[i + 1]

\* 2^n for some n in 0..30
IsPowerOfTwoValue(a) == \E n \in 0 .. (W - 2) : ToSigned(a) = 2 ^ n

\* xorshift on an unsigned 32-bit x
XorshiftUnsigned(seed) ==
    LET x1 == Xor(seed, Shl(seed, 13))
        x2 == Xor(x1, ShrU(x1, 17))
        x3 == Xor(x2, Shl(x2, 5))
    IN  x3

-----------------------------------------------------------------------------
(* Claims *)

\* C1: IsPowerOfTwo(x) is true exactly when x = 2^n for some n in 0..30, and
\* false for every other x, 0 and the negative x included.
C1_IsPowerOfTwoIffPower ==
    fn = "IsPowerOfTwo" => (ret[1] = IsPowerOfTwoValue(args[1]))

\* C2: after SwapNumbers on two distinct locations a and b, a holds what b held
\* and b what a held, and no other location has changed.
C2_SwapExchanges ==
    (fn = "SwapNumbers" /\ args[1] # args[2]) =>
        /\ mem[args[1]] = pre[args[2]]
        /\ mem[args[2]] = pre[args[1]]
        /\ \A l \in Locs \ {args[1], args[2]} : mem[l] = pre[l]

C2_Witness ==
    /\ fn = "SwapNumbers"
    /\ args[1] # args[2]
    /\ pre[args[1]] = IntMin
    /\ pre[args[2]] = IntMax
    /\ mem[args[1]] = IntMax
    /\ mem[args[2]] = IntMin

\* C3: GetBitCount(x) is the number of bits of x equal to 1, a value in 0..32.
C3_BitCountIsPopCount ==
    fn = "GetBitCount" /\ pc = "idle" => ret[1] = PopCount(args[1]) /\ ret[1] \in 0 .. W

C3_Witness ==
    /\ fn = "GetBitCount"
    /\ pc = "idle"
    /\ args[1] = IntMin
    /\ ret[1] = 1

\* C4: BitsAreInAltOrder(n) is true exactly when every two adjacent bits of n,
\* leading zeros left out, differ; n = 0 gives true, and so does a pattern with
\* bit 31 set, where num + 1 wraps to 0.
C4_AltOrderIffAdjacentDiffer ==
    fn = "BitsAreInAltOrder" => (ret[1] = AdjacentBitsDiffer(args[1]))

C4_Witness ==
    /\ fn = "BitsAreInAltOrder"
    /\ args[1] = Alternating(W)
    /\ AddOne(Xor(args[1], ShrU(args[1], 1))) = Zero
    /\ ret[1] = TRUE

C6_AnyBitIffNonZero ==
    fn = "IsAtLeastOneBitSet" => (ret[1] = (ToSigned(args[1]) # 0))

C6_Witness ==
    /\ fn = "IsAtLeastOneBitSet"
    /\ args[1] = IntMin
    /\ ret[1] = TRUE

\* C7: IsNumberEven(x) is true exactly when the two's-complement value of x is
\* divisible by 2.
C7_EvenIffDivisible ==
    fn = "IsNumberEven" => (ret[1] = (ToSigned(args[1]) % 2 = 0))

C7_Witness ==
    /\ fn = "IsNumberEven"
    /\ ToSigned(args[1]) = -2
    /\ ret[1] = TRUE

\* C8: SwapNumbers called with the same location for both arguments leaves 0
\* in that location, whatever it held.
C8_AliasedSwapZeroes ==
    (fn = "SwapNumbers" /\ args[1] = args[2]) => mem[args[1]] = Zero

C8_Witness ==
    /\ fn = "SwapNumbers"
    /\ args[1] = args[2]
    /\ pre[args[1]] = AllOnes
    /\ mem[args[1]] = Zero

\* C9: the loop of GetBitCount ends after exactly popcount(x) runs of its body
\* (at most 32): at the loop head nCount + popcount(nCopy) = popcount(x), each
\* run of the body clears exactly the lowest set bit of nCopy, which makes
\* nCopy smaller, and a call that has entered the loop returns.
C9_LoopHead ==
    /\ pc = "loop" => nCount + PopCount(nCopy) = PopCount(x) /\ iters = nCount
    /\ pc = "done" => iters = PopCount(x) /\ iters <= W /\ ret = <<iters>>

C9_BodyClearsLowest ==
    (pc = "loop" /\ pc' = "loop" /\ nCopy' # nCopy) =>
        nCopy' = ClearLowest(nCopy) /\ UnsignedLess(nCopy', nCopy)

C9_LoopTerminates ==
    /\ []C9_LoopHead
    /\ [][C9_BodyClearsLowest]_vars
    /\ (pc = "loop") ~> (pc = "done")

C9_Witness ==
    /\ pc = "done"
    /\ x = AllOnes
    /\ iters = W

\* C10: GeneratePseudoRandomNumber(seed) returns the pattern of the xorshift
\* sequence computed on an unsigned 32-bit x, for every seed.
C10_SameAsUnsignedXorshift ==
    fn = "GeneratePseudoRandomNumber" => ret[1] = XorshiftUnsigned(args[1])

====
